---------------------------- MODULE Spec2Model ----------------------------
(***************************************************************************)
(* A model of the Cloudflare Prometheus exporter (package main):           *)
(*   exporter/configuration.go  ExporterConfig                             *)
(*   exporter/metrics.go        CloudflareMetrics, New, update,            *)
(*                              updateAccount, updateZone, the gauge       *)
(*                              helpers and createGaugeIfNotExists         *)
(*   main                       construction of the exporter               *)
(*                                                                         *)
(* Conventions.  A Go string whose content comes from the configuration or *)
(* from the Cloudflare API is a sequence of one-character strings, so that *)
(* strings.ReplaceAll, strings.Split, "+" and time.ParseDuration are       *)
(* computed.  A string literal of the source (a metric base name, a help   *)
(* text, a label name) is a TLA+ string.  A metric name base+cm.since is   *)
(* the pair <<base, since>>: cm.since is fixed at construction, and the    *)
(* only name without the suffix starts with "access_" while all the others *)
(* start with "cloudflare_", so two pairs are equal exactly when the       *)
(* concatenations are.                                                     *)
(***************************************************************************)
EXTENDS Integers, Sequences, FiniteSets, TLC

VARIABLES
    stage,      \* main: "boot" | "serving" | "fatal" | "crashed"
    config,     \* the ExporterConfig main builds
    cm,         \* the *CloudflareMetrics New returned (NULL before, or on error)
    err,        \* the error New returned
    gauges,     \* cm.gauges: metric name -> the GaugeVec it points to
    vecs,       \* the GaugeVec objects made by prometheus.NewGaugeVec
    registry,   \* the GaugeVecs registered with prometheus.MustRegister
    panicked,   \* a panic has unwound an update (MustRegister, With)
    pc,         \* update(): "idle" | "accounts" | "zones"
    idx,        \* update(): index of the range loop pc names
    calls,      \* history: the targets update() has invoked in this cycle
    last,       \* history: the operation of the last step and its inputs
    th,         \* the update() goroutines of the concurrent specification
    writing,    \* goroutines with a write to cm.gauges in flight
    raced       \* history: cm.gauges was accessed while a write was in flight

vars == <<stage, config, cm, err, gauges, vecs, registry, panicked, pc, idx,
          calls, last, th, writing, raced>>

NULL == "nil"

(***************************************************************************)
(* Bounds.                                                                 *)
(***************************************************************************)
MaxStrLen == 2      \* configuration strings of the construction check
MaxZones == 2       \* configured zones of a running exporter
MaxAccounts == 1    \* configured accounts of a running exporter

ZoneChars == {"a", "b", ",", " "}
AccountChars == {"p", ",", " "}
ZoneNames == {<<"a">>, <<"b">>}
AccountIds == {<<"p">>}

RECURSIVE StringsUpTo(_, _)
StringsUpTo(chars, n) ==
    IF n = 0 THEN {<<>>}
    ELSE LET shorter == StringsUpTo(chars, n - 1)
         IN  shorter \cup {Append(s, c) : s \in shorter, c \in chars}

RECURSIVE ListsOfLen(_, _)
ListsOfLen(S, n) ==
    IF n = 0 THEN {<<>>}
    ELSE {Append(l, x) : l \in ListsOfLen(S, n - 1), x \in S}

ListsUpTo(S, n) == UNION {ListsOfLen(S, k) : k \in 0..n}

(***************************************************************************)
(* strings.ReplaceAll(s, old, ""), strings.Split(s, sep) for one-character *)
(* old and sep, and the inverse strings.Join used to write configurations. *)
(***************************************************************************)
RECURSIVE ReplaceAllWithEmpty(_, _)
ReplaceAllWithEmpty(s, old) ==
    IF s = <<>> THEN <<>>
    ELSE IF Head(s) = old THEN ReplaceAllWithEmpty(Tail(s), old)
    ELSE <<Head(s)>> \o ReplaceAllWithEmpty(Tail(s), old)

RECURSIVE Split(_, _)
Split(s, sep) ==
    IF \A i \in 1..Len(s) : s[i] # sep THEN <<s>>
    ELSE LET i == CHOOSE k \in 1..Len(s) :
                      s[k] = sep /\ \A j \in 1..(k - 1) : s[j] # sep
         IN  <<SubSeq(s, 1, i - 1)>> \o Split(SubSeq(s, i + 1, Len(s)), sep)

RECURSIVE Join(_, _)
Join(list, sep) ==
    IF list = <<>> THEN <<>>
    ELSE IF Len(list) = 1 THEN list[1]
    ELSE list[1] \o <<sep>> \o Join(Tail(list), sep)

(***************************************************************************)
(* cloudflare-go's constructors: each refuses an empty credential.         *)
(***************************************************************************)
cloudflareNew(key, email) ==
    IF key = <<>> \/ email = <<>>
    THEN [api |-> NULL, err |-> "ErrEmptyCredentials"]
    ELSE [api |-> [auth |-> "email", cred |-> <<email, key>>], err |-> NULL]

cloudflareNewWithAPIToken(token) ==
    IF token = <<>>
    THEN [api |-> NULL, err |-> "ErrEmptyAPIToken"]
    ELSE [api |-> [auth |-> "token", cred |-> <<token>>], err |-> NULL]

cloudflareNewWithUserServiceKey(key) ==
    IF key = <<>>
    THEN [api |-> NULL, err |-> "ErrEmptyCredentials"]
    ELSE [api |-> [auth |-> "user_service_key", cred |-> <<key>>], err |-> NULL]

(***************************************************************************)
(* newWithAPI, the three newWith...Auth constructors and New.              *)
(***************************************************************************)
newWithAPI(cloudflareApi, c) ==
    [api           |-> cloudflareApi,
     zones         |-> Split(ReplaceAllWithEmpty(c.cloudflareZones, " "), ","),
     accounts      |-> Split(ReplaceAllWithEmpty(c.cloudflareAccounts, " "), ","),
     since         |-> c.cloudflareSince,
     includeAccess |-> c.cloudflareIncludeAccess]

newWithClient(made, c) ==
    IF made.err # NULL THEN [cm |-> NULL, err |-> made.err]
    ELSE [cm |-> newWithAPI(made.api, c), err |-> NULL]

newWithEmailAuth(c) ==
    newWithClient(cloudflareNew(c.cloudflareKey, c.cloudflareEmail), c)

newWithTokenAuth(c) ==
    newWithClient(cloudflareNewWithAPIToken(c.cloudflareToken), c)

newWithUserServiceKeyAuth(c) ==
    newWithClient(cloudflareNewWithUserServiceKey(c.cloudflareUserServiceKey), c)

New_tokenFirst(c) ==
    IF c.cloudflareZones = <<>>
    THEN [cm |-> NULL, err |-> "errNoCloudflareZones"]
    ELSE IF c.cloudflareIncludeAccess = TRUE /\ c.cloudflareAccounts = <<>>
    THEN [cm |-> NULL, err |-> "errNoCloudflareAccounts"]
    ELSE IF c.cloudflareToken # <<>>
    THEN newWithTokenAuth(c)
    ELSE IF c.cloudflareEmail # <<>> /\ c.cloudflareKey # <<>>
    THEN newWithEmailAuth(c)
    ELSE IF c.cloudflareUserServiceKey # <<>>
    THEN newWithUserServiceKeyAuth(c)
    ELSE [cm |-> NULL, err |-> "errNoCloudflareAuth"]

New(c) ==
    IF c.cloudflareZones = <<>>
    THEN [cm |-> NULL, err |-> "errNoCloudflareZones"]
    ELSE IF c.cloudflareIncludeAccess = TRUE /\ c.cloudflareAccounts = <<>>
    THEN [cm |-> NULL, err |-> "errNoCloudflareAccounts"]
    ELSE IF c.cloudflareEmail # <<>> /\ c.cloudflareKey # <<>>
    THEN newWithEmailAuth(c)
    ELSE IF c.cloudflareToken # <<>>
    THEN newWithTokenAuth(c)
    ELSE IF c.cloudflareUserServiceKey # <<>>
    THEN newWithUserServiceKeyAuth(c)
    ELSE [cm |-> NULL, err |-> "errNoCloudflareAuth"]

(***************************************************************************)
(* The registry as one value: cm.gauges, the GaugeVec objects, the         *)
(* Prometheus default registry, and whether a panic is unwinding the call. *)
(* A GaugeVec is identified by its name and the number of NewGaugeVec      *)
(* calls made for that name so far.  Its label names are kept as a set:    *)
(* createGaugeIfNotExists fills label_names in map iteration order, and    *)
(* With(Labels) matches labels by name, so the order is not observable.    *)
(***************************************************************************)
EmptyMap == <<>>

Reg(g, v, r) == [gauges |-> g, vecs |-> v, registry |-> r, panic |-> FALSE]

VecsNamed(R, name) == {id \in DOMAIN R.vecs : R.vecs[id].name = name}

\* float64(value): exact for the integers of the model (below 2^53)
Float64(value) == value

\* prometheus.NewGaugeVec(GaugeOpts{Name: name, Help: help}, label_names)
NewGaugeVec(R, name, help, label_names) ==
    LET id == <<name, Cardinality(VecsNamed(R, name)) + 1>>
    IN  [id  |-> id,
         vec |-> [name |-> name, help |-> help, labelNames |-> label_names,
                  values |-> EmptyMap]]

\* prometheus.MustRegister(c): panics when a collector of that name is registered
MustRegister(R, id) ==
    IF \E r \in R.registry : R.vecs[r].name = R.vecs[id].name
    THEN [R EXCEPT !.panic = TRUE]
    ELSE [R EXCEPT !.registry = @ \cup {id}]

createGaugeIfNotExists_recreate(R, name, help, labels) ==
    IF R.panic THEN R
    ELSE IF name \in DOMAIN R.gauges /\ R.vecs[R.gauges[name]].help = help THEN R
    ELSE LET made == NewGaugeVec(R, name, help, DOMAIN labels)
             R1 == [R EXCEPT !.vecs = (made.id :> made.vec) @@ @,
                             !.gauges = (name :> made.id) @@ @]
         IN  MustRegister(R1, made.id)

createGaugeIfNotExists(R, name, help, labels) ==
    IF R.panic THEN R
    ELSE IF name \in DOMAIN R.gauges THEN R
    ELSE LET made == NewGaugeVec(R, name, help, DOMAIN labels)
             R1 == [R EXCEPT !.vecs = (made.id :> made.vec) @@ @,
                             !.gauges = (name :> made.id) @@ @]
         IN  MustRegister(R1, made.id)

WithSet_add(R, name, labels, value) ==
    IF R.panic THEN R
    ELSE IF name \notin DOMAIN R.gauges THEN [R EXCEPT !.panic = TRUE]
    ELSE LET id == R.gauges[name]
             old == IF labels \in DOMAIN R.vecs[id].values
                    THEN R.vecs[id].values[labels] ELSE 0
         IN  IF DOMAIN labels # R.vecs[id].labelNames
             THEN [R EXCEPT !.panic = TRUE]
             ELSE [R EXCEPT !.vecs[id].values =
                                (labels :> (old + Float64(value))) @@ @]

\* cm.gauges[name].With(labels).Set(float64(value)): With panics unless the
\* labels carry exactly the label names of the GaugeVec
WithSet(R, name, labels, value) ==
    IF R.panic THEN R
    ELSE IF name \notin DOMAIN R.gauges THEN [R EXCEPT !.panic = TRUE]
    ELSE LET id == R.gauges[name]
         IN  IF DOMAIN labels # R.vecs[id].labelNames
             THEN [R EXCEPT !.panic = TRUE]
             ELSE [R EXCEPT !.vecs[id].values =
                                (labels :> Float64(value)) @@ @]

updateZoneGauge(R, zoneId, zoneName, name, help, value) ==
    LET labels == [zone_id |-> zoneId, zone_name |-> zoneName]
    IN  WithSet(createGaugeIfNotExists(R, name, help, labels), name, labels, value)

RECURSIVE RangeSet_noKey(_, _, _, _, _, _)
RangeSet_noKey(R, name, labels, byLabel, values, keys) ==
    IF keys = <<>> THEN R
    ELSE LET R1 == WithSet(R, name, labels, values[Head(keys)])
         IN  IF R1.panic THEN R1
             ELSE RangeSet_noKey(R1, name, labels, byLabel, values, Tail(keys))

\* for key, value := range values { labels[byLabel] = key; ...Set(...) },
\* the keys visited in the order `keys`
RECURSIVE RangeSet(_, _, _, _, _, _)
RangeSet(R, name, labels, byLabel, values, keys) ==
    IF keys = <<>> THEN R
    ELSE LET l  == [labels EXCEPT ![byLabel] = Head(keys)]
             R1 == WithSet(R, name, l, values[Head(keys)])
         IN  IF R1.panic THEN R1    \* a panic unwinds the loop
             ELSE RangeSet(R1, name, l, byLabel, values, Tail(keys))

\* the iteration order of `range values`: the keys of values as `order`, an
\* enumeration of all keys, lists them
RECURSIVE KeysInOrder(_, _)
KeysInOrder(values, order) ==
    IF order = <<>> THEN <<>>
    ELSE IF Head(order) \in DOMAIN values
    THEN <<Head(order)>> \o KeysInOrder(values, Tail(order))
    ELSE KeysInOrder(values, Tail(order))

updateZoneGaugeByLabel_placeholder(R, zoneId, zoneName, name, help, byLabel, values, order) ==
    LET labels == (byLabel :> <<>>) @@ [zone_id |-> zoneId, zone_name |-> zoneName]
        R1 == WithSet(createGaugeIfNotExists(R, name, help, labels), name, labels, 0)
    IN  RangeSet(R1, name, labels, byLabel, values, KeysInOrder(values, order))

updateZoneGaugeByLabel_reset(R, zoneId, zoneName, name, help, byLabel, values, order) ==
    LET labels == (byLabel :> <<>>) @@ [zone_id |-> zoneId, zone_name |-> zoneName]
        R1 == createGaugeIfNotExists(R, name, help, labels)
        R2 == IF R1.panic THEN R1
              ELSE [R1 EXCEPT !.vecs[R1.gauges[name]].values = EmptyMap]
    IN  RangeSet(R2, name, labels, byLabel, values, KeysInOrder(values, order))

updateZoneGaugeByLabel(R, zoneId, zoneName, name, help, byLabel, values, order) ==
    LET labels == (byLabel :> <<>>) @@ [zone_id |-> zoneId, zone_name |-> zoneName]
        R1 == createGaugeIfNotExists(R, name, help, labels)
    IN  RangeSet(R1, name, labels, byLabel, values, KeysInOrder(values, order))

updateAccountGaugeByLabel(R, accountId, name, help, byLabel, values, order) ==
    LET labels == (byLabel :> <<>>) @@ [account_id |-> accountId]
        R1 == createGaugeIfNotExists(R, name, help, labels)
    IN  RangeSet(R1, name, labels, byLabel, values, KeysInOrder(values, order))

(***************************************************************************)
(* time.ParseDuration: an optional sign, then one or more groups of a      *)
(* decimal number (digits, optional fraction) and a unit of unitMap.  Only *)
(* whether it fails is used (the parsed value goes to the API call);       *)
(* overflow of the value is not modelled.                                  *)
(***************************************************************************)
Digits == {"0", "1", "2", "3", "4", "5", "6", "7", "8", "9"}

unitMap == {<<"n", "s">>, <<"u", "s">>, <<"m", "s">>, <<"s">>, <<"m">>, <<"h">>}

RECURSIVE SkipDigits(_)
SkipDigits(s) ==
    IF s # <<>> /\ Head(s) \in Digits THEN SkipDigits(Tail(s)) ELSE s

RECURSIVE UnitLen(_)
UnitLen(s) ==
    IF s = <<>> \/ Head(s) = "." \/ Head(s) \in Digits THEN 0
    ELSE 1 + UnitLen(Tail(s))

\* the loop `for s != ""` of ParseDuration: TRUE when every group parses
RECURSIVE DurationGroups(_)
DurationGroups(s) ==
    IF s = <<>> THEN TRUE
    ELSE IF ~(Head(s) = "." \/ Head(s) \in Digits) THEN FALSE
    ELSE LET s1   == SkipDigits(s)
             pre  == Len(s1) # Len(s)
             s2   == IF s1 # <<>> /\ Head(s1) = "." THEN SkipDigits(Tail(s1)) ELSE s1
             post == s1 # <<>> /\ Head(s1) = "." /\ Len(s2) # Len(s1) - 1
             i    == UnitLen(s2)
         IN  /\ pre \/ post
             /\ i # 0
             /\ SubSeq(s2, 1, i) \in unitMap
             /\ DurationGroups(SubSeq(s2, i + 1, Len(s2)))

ParseDuration(orig) ==
    LET s == IF orig # <<>> /\ Head(orig) \in {"-", "+"} THEN Tail(orig) ELSE orig
    IN  IF s = <<"0">> THEN [err |-> FALSE]
        ELSE IF s = <<>> THEN [err |-> TRUE]
        ELSE [err |-> ~DurationGroups(s)]

(***************************************************************************)
(* The Cloudflare API as updateZone and updateAccount see it.              *)
(***************************************************************************)
US == <<"U", "S">>
DE == <<"D", "E">>
Keys == {US, DE}
tok1 == <<"t", "o", "k", "1">>
tok2 == <<"t", "o", "k", "2">>
TokenNames == {tok1, tok2}

Range(f) == {f[x] : x \in DOMAIN f}

\* the sequences that list every element of S once
Orders(S) ==
    {p \in [1..Cardinality(S) -> S] : \A i, j \in 1..Cardinality(S) : p[i] = p[j] => i = j}

\* ZoneIDByName: the provider's id of a zone, the same at every call
ZoneIDOf(zoneName) == <<"#">> \o zoneName

\* the metric bindings of updateZone, in source order
ZoneBindingRows ==
    << [scalar |-> TRUE,  base |-> "cloudflare_requests_rate", byLabel |-> "", field |-> "Requests.All",
        help |-> "Total number of requests over the last 24h"],
       [scalar |-> TRUE,  base |-> "cloudflare_requests_cached_rate", byLabel |-> "", field |-> "Requests.Cached",
        help |-> "Total number of cached requests over the last 24h"],
       [scalar |-> TRUE,  base |-> "cloudflare_requests_uncached_rate", byLabel |-> "", field |-> "Requests.Uncached",
        help |-> "Total number of uncached requests over the last 24h"],
       [scalar |-> FALSE, base |-> "cloudflare_requests_content_type_rate", byLabel |-> "content_type", field |-> "Requests.ContentType",
        help |-> "Total number of requests over the last 24h by response Content-Type header"],
       [scalar |-> FALSE, base |-> "cloudflare_requests_country_rate", byLabel |-> "country", field |-> "Requests.Country",
        help |-> "Total number of requests over the last 24h by request country"],
       [scalar |-> TRUE,  base |-> "cloudflare_requests_encrypted_rate", byLabel |-> "", field |-> "Requests.SSL.Encrypted",
        help |-> "Total number of encrypted requests over the last 24h"],
       [scalar |-> TRUE,  base |-> "cloudflare_requests_unencrypted_rate", byLabel |-> "", field |-> "Requests.SSL.Unencrypted",
        help |-> "Total number of unencrypted requests over the last 24h"],
       [scalar |-> FALSE, base |-> "cloudflare_requests_status_rate", byLabel |-> "status", field |-> "Requests.HTTPStatus",
        help |-> "Total number of requests over the last 24h by response code"],
       [scalar |-> TRUE,  base |-> "cloudflare_bandwidth_bytes_rate", byLabel |-> "", field |-> "Bandwidth.All",
        help |-> "Total bandwidth over the last 24h"],
       [scalar |-> TRUE,  base |-> "cloudflare_bandwidth_cached_bytes_rate", byLabel |-> "", field |-> "Bandwidth.Cached",
        help |-> "Total cached bandwidth over the last 24h"],
       [scalar |-> TRUE,  base |-> "cloudflare_bandwidth_uncached_bytes_rate", byLabel |-> "", field |-> "Bandwidth.Uncached",
        help |-> "Total uncached bandwidth over the last 24h"],
       [scalar |-> FALSE, base |-> "cloudflare_bandwidth_content_type_bytes_rate", byLabel |-> "content_type", field |-> "Bandwidth.ContentType",
        help |-> "Total bandwidth over the last 24h by response Content-Type header"],
       [scalar |-> FALSE, base |-> "cloudflare_bandwidth_country_bytes_rate", byLabel |-> "country", field |-> "Bandwidth.Country",
        help |-> "Total bandwidth over the last 24h by request country"],
       [scalar |-> TRUE,  base |-> "cloudflare_bandwidth_encrypted_bytes_rate", byLabel |-> "", field |-> "Bandwidth.SSL.Encrypted",
        help |-> "Total encrypted bandwidth over the last 24h"],
       [scalar |-> TRUE,  base |-> "cloudflare_bandwidth_unencrypted_bytes_rate", byLabel |-> "", field |-> "Bandwidth.SSL.Unencrypted",
        help |-> "Total unencrypted bandwidth over the last 24h"],
       [scalar |-> TRUE,  base |-> "cloudflare_threats_rate", byLabel |-> "", field |-> "Threats.All",
        help |-> "Total mitigated threats over the last 24h"],
       [scalar |-> FALSE, base |-> "cloudflare_threats_country_rate", byLabel |-> "country", field |-> "Threats.Country",
        help |-> "Total mitigated threats over the last 24h by request country"],
       [scalar |-> FALSE, base |-> "cloudflare_threats_type_rate", byLabel |-> "type", field |-> "Threats.Type",
        help |-> "Total mitigated threats over the last 24h by type"],
       [scalar |-> TRUE,  base |-> "cloudflare_pageviews_rate", byLabel |-> "", field |-> "Pageviews.All",
        help |-> "Total page views over the last 24h"],
       [scalar |-> FALSE, base |-> "cloudflare_pageviews_search_engine_rate", byLabel |-> "search_engine", field |-> "Pageviews.SearchEngines",
        help |-> "Total page views over the last 24h by search engine"],
       [scalar |-> TRUE,  base |-> "cloudflare_uniques_rate", byLabel |-> "", field |-> "Uniques.All",
        help |-> "Total unique visitors over the last 24h"] >>

NumZoneBindings == Len(ZoneBindingRows)

ZoneBinding_collision(i) ==
    IF i = 5 THEN [ZoneBindingRows[5] EXCEPT !.base = "cloudflare_requests_rate"]
    ELSE ZoneBindingRows[i]

\* the i-th binding updateZone emits
ZoneBinding(i) == ZoneBindingRows[i]

\* the one binding of updateAccount; its name carries no cm.since suffix
AccountBinding ==
    [base |-> "access_service_token_expiration", byLabel |-> "token_name",
     help |-> "The current unix timestamp at which a service token expires"]

SnapshotFields ==
    {"Requests.All", "Requests.Cached", "Requests.Uncached", "Requests.ContentType",
     "Requests.Country", "Requests.SSL.Encrypted", "Requests.SSL.Unencrypted",
     "Requests.HTTPStatus", "Bandwidth.All", "Bandwidth.Cached", "Bandwidth.Uncached",
     "Bandwidth.ContentType", "Bandwidth.Country", "Bandwidth.SSL.Encrypted",
     "Bandwidth.SSL.Unencrypted", "Threats.All", "Threats.Country", "Threats.Type",
     "Pageviews.All", "Pageviews.SearchEngines", "Uniques.All"}

MapFields ==
    {"Requests.ContentType", "Requests.Country", "Requests.HTTPStatus",
     "Bandwidth.ContentType", "Bandwidth.Country", "Threats.Country", "Threats.Type",
     "Pageviews.SearchEngines"}

\* a number of each field, to tell the fields of one response apart
FieldNo(f) ==
    CHOOSE i \in 1..NumZoneBindings : ZoneBindingRows[i].field = f

\* data.Totals of one ZoneAnalyticsDashboard response: every total built from
\* v and every breakdown from m, each offset by its field's number
Snapshot(v, m) ==
    [f \in SnapshotFields |->
        IF f \in MapFields
        THEN [k \in DOMAIN m |-> 100 * m[k] + FieldNo(f)]
        ELSE 100 * v + FieldNo(f)]

Snapshots ==
    { Snapshot(10, (US :> 5) @@ (DE :> 2)),
      Snapshot(7, (US :> 3)) }

NoData == [f \in {} |-> 0]

\* the keys of the breakdown maps of a response
BreakdownKeys(data) == UNION {DOMAIN data[f] : f \in DOMAIN data \cap MapFields}

\* what one updateZone call gets from the API: ZoneIDByName failing,
\* ZoneAnalyticsDashboard failing, or a response
ZoneResponses ==
    {[idErr |-> TRUE, fetchErr |-> FALSE, data |-> NoData],
     [idErr |-> FALSE, fetchErr |-> TRUE, data |-> NoData]}
    \cup {[idErr |-> FALSE, fetchErr |-> FALSE, data |-> d] : d \in Snapshots}

\* what one updateAccount call gets: AccessServiceTokens failing, or the
\* tokens as (Name, ExpiresAt.Unix()) in the order of the response
Token(name, expiresAt) == [Name |-> name, ExpiresAt |-> expiresAt]

AccountResponses ==
    {[err |-> TRUE, tokens |-> <<>>],
     [err |-> FALSE, tokens |-> <<>>],
     [err |-> FALSE, tokens |-> <<Token(tok1, 1600)>>],
     [err |-> FALSE, tokens |-> <<Token(tok1, 1700), Token(tok2, 1600), Token(tok2, 1800)>>]}

(***************************************************************************)
(* updateAccount and updateZone.  Each returns the registry it leaves and  *)
(* whether it returned on an error.                                        *)
(***************************************************************************)
\* for _, data := range accessServiceTokens { m[data.Name] = data.ExpiresAt.Unix() }
RECURSIVE serviceTokenExpirationMap(_)
serviceTokenExpirationMap(tokens) ==
    IF tokens = <<>> THEN EmptyMap
    ELSE LET t == tokens[Len(tokens)]
         IN  (t.Name :> t.ExpiresAt) @@ serviceTokenExpirationMap(SubSeq(tokens, 1, Len(tokens) - 1))

updateAccount(R, accountId, resp, order) ==
    IF resp.err THEN [R |-> R, failed |-> TRUE]
    ELSE [R |-> updateAccountGaugeByLabel(R, accountId, <<AccountBinding.base, <<>>>>,
                    AccountBinding.help, AccountBinding.byLabel,
                    serviceTokenExpirationMap(resp.tokens), order),
          failed |-> FALSE]

\* the bindings i.. of updateZone, applied in source order
RECURSIVE EmitZoneBindings(_, _, _, _, _, _, _)
EmitZoneBindings(R, since, zoneId, zoneName, data, order, i) ==
    IF i > NumZoneBindings THEN R
    ELSE LET b  == ZoneBinding(i)
             R1 == IF b.scalar
                   THEN updateZoneGauge(R, zoneId, zoneName, <<b.base, since>>, b.help,
                                        data[b.field])
                   ELSE updateZoneGaugeByLabel(R, zoneId, zoneName, <<b.base, since>>,
                                        b.help, b.byLabel, data[b.field], order)
         IN  IF R1.panic THEN R1    \* a panic unwinds updateZone
             ELSE EmitZoneBindings(R1, since, zoneId, zoneName, data, order, i + 1)

\* the zero value of the response struct: totals 0, breakdown maps nil
ZeroData == [f \in SnapshotFields |-> IF f \in MapFields THEN EmptyMap ELSE 0]

updateZone_ignoreFetchErr(R, since, zoneName, resp, order) ==
    IF resp.idErr THEN [R |-> R, failed |-> TRUE]
    ELSE IF ParseDuration(<<"-">> \o since).err THEN [R |-> R, failed |-> TRUE]
    ELSE [R |-> EmitZoneBindings(R, since, ZoneIDOf(zoneName), zoneName,
                    IF resp.fetchErr THEN ZeroData ELSE resp.data, order, 1),
          failed |-> resp.fetchErr]

updateZone(R, since, zoneName, resp, order) ==
    IF resp.idErr THEN [R |-> R, failed |-> TRUE]
    ELSE IF ParseDuration(<<"-">> \o since).err THEN [R |-> R, failed |-> TRUE]
    ELSE IF resp.fetchErr THEN [R |-> R, failed |-> TRUE]
    ELSE [R |-> EmitZoneBindings(R, since, ZoneIDOf(zoneName), zoneName,
                    resp.data, order, 1),
          failed |-> FALSE]

(***************************************************************************)
(* update(): the two range loops.  rangeNext gives the loop position that  *)
(* follows position (phase, i); a range over an empty list is skipped.     *)
(***************************************************************************)
rangeStart(m, phase) ==
    IF phase = "accounts" /\ m.includeAccess = TRUE /\ Len(m.accounts) > 0
    THEN [pc |-> "accounts", idx |-> 1]
    ELSE IF Len(m.zones) > 0 THEN [pc |-> "zones", idx |-> 1]
    ELSE [pc |-> "idle", idx |-> 0]

rangeNext_stopEarly(m, phase, i) ==
    IF phase = "accounts"
    THEN IF i < Len(m.accounts) THEN [pc |-> "accounts", idx |-> i + 1]
         ELSE rangeStart(m, "zones")
    ELSE IF i + 1 < Len(m.zones) THEN [pc |-> "zones", idx |-> i + 1]
         ELSE [pc |-> "idle", idx |-> 0]

rangeNext(m, phase, i) ==
    IF phase = "accounts"
    THEN IF i < Len(m.accounts) THEN [pc |-> "accounts", idx |-> i + 1]
         ELSE rangeStart(m, "zones")
    ELSE IF i < Len(m.zones) THEN [pc |-> "zones", idx |-> i + 1]
         ELSE [pc |-> "idle", idx |-> 0]

(***************************************************************************)
(* The running exporter with a single caller of update().                  *)
(***************************************************************************)
SinceValues == {<<"2", "4", "h">>, <<"1", "d">>}

RunConfigs ==
    {[cloudflareEmail |-> <<>>, cloudflareKey |-> <<>>,
      cloudflareToken |-> <<"t">>, cloudflareUserServiceKey |-> <<>>,
      cloudflareZones |-> Join(zs, ","), cloudflareAccounts |-> Join(as, ","),
      cloudflareSince |-> s, cloudflareIncludeAccess |-> b] :
        zs \in ListsUpTo(ZoneNames, MaxZones), as \in ListsUpTo(AccountIds, MaxAccounts),
        s \in SinceValues, b \in BOOLEAN}

NoLast == [op |-> "none", target |-> <<>>, resp |-> NULL]

Init ==
    /\ config \in RunConfigs
    /\ New(config).err = NULL
    /\ cm = New(config).cm
    /\ err = NULL
    /\ stage = "serving"
    /\ gauges = EmptyMap /\ vecs = EmptyMap /\ registry = {}
    /\ panicked = FALSE
    /\ pc = "idle" /\ idx = 0
    /\ calls = <<>>
    /\ last = NoLast
    /\ th = EmptyMap /\ writing = {} /\ raced = FALSE

\* what a target's update leaves: the registry, the loop position (a panic
\* unwinds update()), and the history
Commit(out, op, target, resp) ==
    /\ gauges' = out.R.gauges
    /\ vecs' = out.R.vecs
    /\ registry' = out.R.registry
    /\ panicked' = (panicked \/ out.R.panic)
    /\ pc' = IF out.R.panic THEN "idle" ELSE rangeNext(cm, pc, idx).pc
    /\ idx' = IF out.R.panic THEN 0 ELSE rangeNext(cm, pc, idx).idx
    /\ calls' = Append(calls, <<op, target>>)
    /\ last' = [op |-> op, target |-> target, resp |-> resp]
    /\ UNCHANGED <<stage, config, cm, err, th, writing, raced>>

\* a caller enters update()
update_enter ==
    /\ stage = "serving" /\ pc = "idle"
    /\ pc' = rangeStart(cm, "accounts").pc
    /\ idx' = rangeStart(cm, "accounts").idx
    /\ calls' = <<>>
    /\ last' = [op |-> "update", target |-> <<>>, resp |-> NULL]
    /\ UNCHANGED <<stage, config, cm, err, gauges, vecs, registry, panicked,
                   th, writing, raced>>

\* one iteration of `for _, account := range cm.accounts`
update_account ==
    /\ stage = "serving" /\ pc = "accounts"
    /\ \E resp \in AccountResponses :
       \E order \in Orders({t.Name : t \in Range(resp.tokens)}) :
          Commit(updateAccount(Reg(gauges, vecs, registry), cm.accounts[idx], resp, order),
                 "updateAccount", cm.accounts[idx], resp)

\* one iteration of `for _, zone := range cm.zones`
update_zone ==
    /\ stage = "serving" /\ pc = "zones"
    /\ \E resp \in ZoneResponses :
       \E order \in Orders(BreakdownKeys(resp.data)) :
          Commit(updateZone(Reg(gauges, vecs, registry), cm.since, cm.zones[idx], resp, order),
                 "updateZone", cm.zones[idx], resp)

Next == update_enter \/ update_account \/ update_zone

Spec == Init /\ [][Next]_vars

(***************************************************************************)
(* Vocabulary of the properties.                                           *)
(***************************************************************************)
ZoneLabels(zoneName) == [zone_id |-> ZoneIDOf(zoneName), zone_name |-> zoneName]

\* the label-value tuple a breakdown entry `key` of a zone is recorded under
ZoneKeyLabels(zoneName, byLabel, key) == (byLabel :> key) @@ ZoneLabels(zoneName)

AccountKeyLabels(accountId, byLabel, key) == (byLabel :> key) @@ [account_id |-> accountId]

ZoneMetric(i) == <<ZoneBindingRows[i].base, cm.since>>

AccountMetric == <<AccountBinding.base, <<>>>>

Recorded(name, labels) ==
    name \in DOMAIN gauges /\ labels \in DOMAIN vecs[gauges[name]].values

ValueOf(name, labels) == vecs[gauges[name]].values[labels]

\* the step just taken invoked a target
TargetStep == Len(calls') = Len(calls) + 1

DurationFails == ParseDuration(<<"-">> \o cm.since).err

ZoneSucceeded(l) ==
    l.op = "updateZone" /\ ~l.resp.idErr /\ ~l.resp.fetchErr /\ ~DurationFails

AccountSucceeded(l) == l.op = "updateAccount" /\ ~l.resp.err

TargetFailed(l) ==
    \/ l.op = "updateZone" /\ ~ZoneSucceeded(l)
    \/ l.op = "updateAccount" /\ l.resp.err

\* the label-value tuples of metric `name` that the operation l sets
TuplesSetBy(l, name) ==
    IF ZoneSucceeded(l)
    THEN UNION {IF ZoneBindingRows[i].scalar
                THEN {ZoneLabels(l.target)}
                ELSE {ZoneKeyLabels(l.target, ZoneBindingRows[i].byLabel, k) :
                         k \in DOMAIN l.resp.data[ZoneBindingRows[i].field]} :
                i \in {j \in 1..NumZoneBindings : ZoneMetric(j) = name}}
    ELSE IF AccountSucceeded(l) /\ name = AccountMetric
    THEN {AccountKeyLabels(l.target, AccountBinding.byLabel, t.Name) :
             t \in Range(l.resp.tokens)}
    ELSE {}

\* C2: a target whose lookup, duration parse or fetch fails leaves the
\* registry and every recorded value as they were, and update() goes on to
\* the next configured target; a zone that succeeds, whatever failed before
\* it, has its totals recorded.
C2_FailedTargetIsIsolated ==
    [][ TargetStep =>
          /\ TargetFailed(last') =>
                /\ gauges' = gauges /\ vecs' = vecs /\ registry' = registry
                /\ ~panicked'
                /\ IF pc = "zones" /\ idx = Len(cm.zones) THEN pc' = "idle"
                   ELSE IF pc = "accounts" /\ idx = Len(cm.accounts)
                   THEN pc' = "zones" /\ idx' = 1
                   ELSE pc' = pc /\ idx' = idx + 1
          /\ ZoneSucceeded(last') =>
                \A i \in 1..NumZoneBindings :
                    ZoneBindingRows[i].scalar =>
                        /\ ZoneMetric(i) \in DOMAIN gauges'
                        /\ ZoneLabels(last'.target) \in
                               DOMAIN vecs'[gauges'[ZoneMetric(i)]].values
                        /\ vecs'[gauges'[ZoneMetric(i)]].values[ZoneLabels(last'.target)]
                               = last'.resp.data[ZoneBindingRows[i].field]
      ]_vars

\* C2 witness: in one cycle zone 1 was invoked and has never recorded
\* anything (it failed), and zone 2 after it succeeded and is recorded
C2_Witness ==
    /\ Len(cm.zones) = 2 /\ cm.zones[1] # cm.zones[2]
    /\ pc = "idle" /\ Len(calls) >= 2
    /\ ZoneSucceeded(last) /\ last.target = cm.zones[2]
    /\ Recorded(ZoneMetric(1), ZoneLabels(cm.zones[2]))
    /\ ~Recorded(ZoneMetric(1), ZoneLabels(cm.zones[1]))

\* the targets one update() cycle is to invoke, in order
ExpectedCalls ==
    (IF cm.includeAccess = TRUE
     THEN [i \in 1..Len(cm.accounts) |-> <<"updateAccount", cm.accounts[i]>>]
     ELSE <<>>)
    \o [i \in 1..Len(cm.zones) |-> <<"updateZone", cm.zones[i]>>]

ZoneBindingLabelNames(i) ==
    IF ZoneBindingRows[i].scalar THEN {"zone_id", "zone_name"}
    ELSE {"zone_id", "zone_name", ZoneBindingRows[i].byLabel}

AccountBindingLabelNames == {"account_id", AccountBinding.byLabel}

\* C6: no update ever met an instrument whose label names differ from the
\* ones it supplied (With would have panicked); every instrument has the
\* label names of every binding that uses its name, and every tuple
\* recorded in it carries exactly those names.
C6_LabelNamesAgree ==
    /\ ~panicked
    /\ \A id \in DOMAIN vecs :
          /\ \A l \in DOMAIN vecs[id].values : DOMAIN l = vecs[id].labelNames
          /\ \A i \in 1..NumZoneBindings :
                ZoneMetric(i) = vecs[id].name =>
                    vecs[id].labelNames = ZoneBindingLabelNames(i)
          /\ AccountMetric = vecs[id].name =>
                vecs[id].labelNames = AccountBindingLabelNames
          /\ AccountMetric # vecs[id].name =>
                \E i \in 1..NumZoneBindings : ZoneMetric(i) = vecs[id].name

\* C6 witness: the three kinds of binding have recorded values, two zones
\* in the same instruments
C6_Witness ==
    /\ Len(cm.zones) = 2 /\ cm.zones[1] # cm.zones[2]
    /\ \A z \in Range(cm.zones) :
          /\ Recorded(ZoneMetric(1), ZoneLabels(z))
          /\ Recorded(ZoneMetric(5), ZoneKeyLabels(z, "country", US))
    /\ Recorded(AccountMetric, AccountKeyLabels(cm.accounts[1], "token_name", tok1))

\* C7: no step removes an instrument or a recorded tuple, and a step changes
\* the value of a tuple only if it is one of the tuples the step sets.
C7_TuplesAreNeverRemoved ==
    [][ \A id \in DOMAIN vecs :
          /\ id \in DOMAIN vecs'
          /\ \A l \in DOMAIN vecs[id].values :
                /\ l \in DOMAIN vecs'[id].values
                /\ l \notin TuplesSetBy(last', vecs[id].name) =>
                      vecs'[id].values[l] = vecs[id].values[l]
      ]_vars

\* C7 witness: the last response of a zone had no DE entry, and the DE tuple
\* of an earlier cycle is still recorded beside the fresh US value
C7_Witness ==
    /\ ZoneSucceeded(last)
    /\ DE \notin DOMAIN last.resp.data["Requests.Country"]
    /\ Recorded(ZoneMetric(5), ZoneKeyLabels(last.target, "country", DE))
    /\ ValueOf(ZoneMetric(5), ZoneKeyLabels(last.target, "country", DE))
          = Snapshot(10, (US :> 5) @@ (DE :> 2))["Requests.Country"][DE]
    /\ ValueOf(ZoneMetric(5), ZoneKeyLabels(last.target, "country", US))
          = last.resp.data["Requests.Country"][US]

\* C9: after a successful updateZone, whatever the iteration order, every
\* entry of every breakdown map is recorded under the zone's id and name
\* plus the entry's key, with the entry's value; and the tuples of a
\* breakdown instrument are only such tuples: of a configured zone, with
\* its id, and with a key of the upstream data (never the placeholder).
C9_BreakdownEntriesBecomeTuples ==
    /\ ZoneSucceeded(last) =>
          \A i \in 1..NumZoneBindings :
              ~ZoneBindingRows[i].scalar =>
                  \A k \in DOMAIN last.resp.data[ZoneBindingRows[i].field] :
                      /\ Recorded(ZoneMetric(i),
                                  ZoneKeyLabels(last.target, ZoneBindingRows[i].byLabel, k))
                      /\ ValueOf(ZoneMetric(i),
                                 ZoneKeyLabels(last.target, ZoneBindingRows[i].byLabel, k))
                            = last.resp.data[ZoneBindingRows[i].field][k]
    /\ \A i \in 1..NumZoneBindings :
          (~ZoneBindingRows[i].scalar /\ ZoneMetric(i) \in DOMAIN gauges) =>
              \A l \in DOMAIN vecs[gauges[ZoneMetric(i)]].values :
                  \E z \in Range(cm.zones), k \in Keys :
                      l = ZoneKeyLabels(z, ZoneBindingRows[i].byLabel, k)

\* C9 witness: the response {US, DE} of the second zone is recorded
C9_Witness ==
    /\ Len(cm.zones) = 2
    /\ ZoneSucceeded(last) /\ last.target = cm.zones[2]
    /\ DOMAIN last.resp.data["Requests.Country"] = {US, DE}
    /\ ValueOf(ZoneMetric(5), ZoneKeyLabels(cm.zones[2], "country", US)) = 505
    /\ ValueOf(ZoneMetric(5), ZoneKeyLabels(cm.zones[2], "country", DE)) = 205
    /\ DOMAIN vecs[gauges[ZoneMetric(5)]].values =
          {ZoneKeyLabels(cm.zones[2], "country", US), ZoneKeyLabels(cm.zones[2], "country", DE)}

(***************************************************************************)
(* The gauge helpers on their own: one caller applies createGaugeIfNot-    *)
(* Exists, updateZoneGauge, updateZoneGaugeByLabel and                     *)
(* updateAccountGaugeByLabel to arbitrary arguments, in any order.         *)
(***************************************************************************)
RegSince == <<"2", "4", "h">>
RegNames == {<<"cloudflare_requests_rate", RegSince>>,
             <<"cloudflare_requests_country_rate", RegSince>>}
RegHelps == {"Total number of requests over the last 24h",
             "Total number of requests over the last 24h by request country"}
RegZone == <<"a">>
RegAccount == <<"p">>
RegByLabel == "country"
RegValues == {1, 2}
RegMaps == {EmptyMap, (US :> 1), (US :> 2) @@ (DE :> 1)}
RegLabels ==
    {ZoneLabels(RegZone), ZoneKeyLabels(RegZone, RegByLabel, <<>>),
     ZoneKeyLabels(RegZone, RegByLabel, US), AccountKeyLabels(RegAccount, RegByLabel, <<>>)}

NoCall == [op |-> "none", name |-> <<>>, help |-> "", labels |-> EmptyMap,
           byLabel |-> "", values |-> EmptyMap, value |-> 0,
           panic |-> FALSE, overwrote |-> FALSE]

InitReg ==
    /\ config = NULL /\ cm = NULL /\ err = NULL
    /\ stage = "serving"
    /\ gauges = EmptyMap /\ vecs = EmptyMap /\ registry = {}
    /\ panicked = FALSE
    /\ pc = "idle" /\ idx = 0
    /\ calls = <<>>
    /\ last = NoCall
    /\ th = EmptyMap /\ writing = {} /\ raced = FALSE

\* the label-value tuples the call c sets when it does not panic
CallTuples(c) ==
    IF c.op = "updateZoneGauge" THEN {c.labels}
    ELSE IF c.op \in {"updateZoneGaugeByLabel", "updateAccountGaugeByLabel"}
    THEN {[c.labels EXCEPT ![c.byLabel] = k] : k \in DOMAIN c.values}
    ELSE {}

\* the value the call c gives the tuple l
CallValue(c, l) ==
    IF c.op = "updateZoneGauge" THEN c.value ELSE c.values[l[c.byLabel]]

CommitReg(R, c) ==
    /\ gauges' = R.gauges
    /\ vecs' = R.vecs
    /\ registry' = R.registry
    /\ panicked' = (panicked \/ R.panic)
    /\ last' = [c EXCEPT !.panic = R.panic,
                         !.overwrote = \E l \in CallTuples(c) :
                                          /\ Recorded(c.name, l)
                                          /\ ValueOf(c.name, l) # CallValue(c, l)]
    /\ UNCHANGED <<stage, config, cm, err, pc, idx, calls, th, writing, raced>>

call_createGaugeIfNotExists ==
    \E name \in RegNames, help \in RegHelps, labels \in RegLabels :
        CommitReg(createGaugeIfNotExists(Reg(gauges, vecs, registry), name, help, labels),
                  [NoCall EXCEPT !.op = "createGaugeIfNotExists", !.name = name,
                                 !.help = help, !.labels = labels])

call_updateZoneGauge ==
    \E name \in RegNames, help \in RegHelps, value \in RegValues :
        CommitReg(updateZoneGauge(Reg(gauges, vecs, registry), ZoneIDOf(RegZone), RegZone,
                                  name, help, value),
                  [NoCall EXCEPT !.op = "updateZoneGauge", !.name = name, !.help = help,
                                 !.labels = ZoneLabels(RegZone), !.value = value])

call_updateZoneGaugeByLabel ==
    \E name \in RegNames, help \in RegHelps, values \in RegMaps :
      \E order \in Orders(DOMAIN values) :
        CommitReg(updateZoneGaugeByLabel(Reg(gauges, vecs, registry), ZoneIDOf(RegZone),
                                         RegZone, name, help, RegByLabel, values, order),
                  [NoCall EXCEPT !.op = "updateZoneGaugeByLabel", !.name = name,
                                 !.help = help, !.byLabel = RegByLabel, !.values = values,
                                 !.labels = ZoneKeyLabels(RegZone, RegByLabel, <<>>)])

call_updateAccountGaugeByLabel ==
    \E name \in RegNames, help \in RegHelps, values \in RegMaps :
      \E order \in Orders(DOMAIN values) :
        CommitReg(updateAccountGaugeByLabel(Reg(gauges, vecs, registry), RegAccount,
                                            name, help, RegByLabel, values, order),
                  [NoCall EXCEPT !.op = "updateAccountGaugeByLabel", !.name = name,
                                 !.help = help, !.byLabel = RegByLabel, !.values = values,
                                 !.labels = AccountKeyLabels(RegAccount, RegByLabel, <<>>)])

NextReg ==
    \/ call_createGaugeIfNotExists
    \/ call_updateZoneGauge
    \/ call_updateZoneGaugeByLabel
    \/ call_updateAccountGaugeByLabel

SpecReg == InitReg /\ [][NextReg]_vars

\* C1: a name that has an instrument keeps that very instrument, with its
\* help text and label names, through every later call, whatever help text
\* and labels the call passes; no name ever has a second instrument, every
\* instrument is registered, and a name first seen gets an instrument with
\* the help text and the label names of that call.
C1_FirstRegistrationPersists ==
    [][ /\ \A n \in DOMAIN gauges :
              /\ n \in DOMAIN gauges' /\ gauges'[n] = gauges[n]
              /\ vecs'[gauges[n]].help = vecs[gauges[n]].help
              /\ vecs'[gauges[n]].labelNames = vecs[gauges[n]].labelNames
        /\ \A id \in DOMAIN vecs' :
              /\ id[2] = 1
              /\ id \in registry'
              /\ gauges'[vecs'[id].name] = id
        /\ \A n \in DOMAIN gauges' \ DOMAIN gauges :
              /\ n = last'.name
              /\ vecs'[gauges'[n]].help = last'.help
              /\ vecs'[gauges'[n]].labelNames = DOMAIN last'.labels
        /\ ~panicked' \/ last'.op # "createGaugeIfNotExists" \/ panicked
      ]_vars

\* C1 witness: a call of createGaugeIfNotExists has passed a help text and
\* label names other than those of the instrument the name already had
C1_Witness ==
    /\ last.op = "createGaugeIfNotExists"
    /\ last.name \in DOMAIN gauges
    /\ vecs[gauges[last.name]].help # last.help
    /\ vecs[gauges[last.name]].labelNames # DOMAIN last.labels
    /\ registry = DOMAIN vecs

\* C3: after every update, each tuple the update set holds exactly the
\* argument of that update, whatever it held before, and every other tuple
\* holds what it held: so a tuple always holds the argument of the most
\* recent update that set it.
C3_SetOverwrites ==
    [][ \A id \in DOMAIN vecs' : \A l \in DOMAIN vecs'[id].values :
          IF ~last'.panic /\ vecs'[id].name = last'.name /\ l \in CallTuples(last')
          THEN vecs'[id].values[l] = CallValue(last', l)
          ELSE /\ id \in DOMAIN vecs /\ l \in DOMAIN vecs[id].values
               /\ vecs'[id].values[l] = vecs[id].values[l]
      ]_vars

\* C3 witness: an update has set a tuple that held another value, and the
\* tuple now holds the update's argument
C3_Witness ==
    /\ last.op = "updateZoneGauge" /\ last.overwrote /\ ~last.panic
    /\ last.value = 1
    /\ ValueOf(last.name, last.labels) = 1

\* C8: a breakdown update with an empty values map leaves the name with an
\* instrument and changes no recorded tuple of any instrument: an
\* instrument it creates has no tuple, so the placeholder labels are not
\* recorded.
C8_EmptyMapRecordsNothing ==
    [][ (last'.op \in {"updateZoneGaugeByLabel", "updateAccountGaugeByLabel"}
           /\ last'.values = EmptyMap) =>
          /\ last'.name \in DOMAIN gauges'
          /\ gauges'[last'.name] \in registry'
          /\ \A id \in DOMAIN vecs' :
                vecs'[id].values = IF id \in DOMAIN vecs THEN vecs[id].values ELSE EmptyMap
      ]_vars

\* C8 witness: a breakdown update with an empty map has created and
\* registered an instrument that has no tuple
C8_Witness ==
    /\ last.op = "updateZoneGaugeByLabel" /\ last.values = EmptyMap
    /\ last.name \in DOMAIN gauges
    /\ gauges[last.name] \in registry
    /\ vecs[gauges[last.name]].labelNames = {"zone_id", "zone_name", "country"}
    /\ vecs[gauges[last.name]].values = EmptyMap

(***************************************************************************)
(* Construction: main builds the ExporterConfig and calls New; log.Fatal   *)
(* ends the process on an error.                                           *)
(***************************************************************************)
Credentials(c) == {<<>>, <<c>>}

NewConfigs ==
    [cloudflareEmail          : Credentials("e"),
     cloudflareKey            : Credentials("k"),
     cloudflareToken          : Credentials("t"),
     cloudflareUserServiceKey : Credentials("u"),
     cloudflareZones          : StringsUpTo(ZoneChars, MaxStrLen),
     cloudflareAccounts       : StringsUpTo(AccountChars, MaxStrLen),
     cloudflareSince          : {<<"2", "4", "h">>},
     cloudflareIncludeAccess  : BOOLEAN]

NoExporter == [api |-> NULL, zones |-> <<>>, accounts |-> <<>>, since |-> <<>>,
               includeAccess |-> FALSE]

InitNew ==
    /\ config \in NewConfigs
    /\ cm = NoExporter /\ err = NULL
    /\ stage = "boot"
    /\ gauges = EmptyMap /\ vecs = EmptyMap /\ registry = {}
    /\ panicked = FALSE
    /\ pc = "idle" /\ idx = 0
    /\ calls = <<>>
    /\ last = NoLast
    /\ th = EmptyMap /\ writing = {} /\ raced = FALSE

\* cloudflare_metrics, err = New(config); if err != nil { log.Fatal(err) }
main ==
    /\ stage = "boot"
    /\ err' = New(config).err
    /\ cm' = IF New(config).err = NULL THEN New(config).cm ELSE NoExporter
    /\ stage' = IF New(config).err = NULL THEN "serving" ELSE "fatal"
    /\ UNCHANGED <<config, gauges, vecs, registry, panicked, pc, idx, calls, last,
                   th, writing, raced>>

NextNew == main

SpecNew == InitNew /\ [][NextNew]_vars

EmailAuthSet == config.cloudflareEmail # <<>> /\ config.cloudflareKey # <<>>
TokenAuthSet == config.cloudflareToken # <<>>
UserServiceKeyAuthSet == config.cloudflareUserServiceKey # <<>>
ZonesUnset == config.cloudflareZones = <<>>
AccountsMissing ==
    config.cloudflareIncludeAccess = TRUE /\ config.cloudflareAccounts = <<>>

\* C10: New fails exactly when the zones are not set, or access metrics are
\* on and the accounts are not set, or none of email+key, token and
\* user-service-key is set; otherwise it returns an exporter whose client
\* uses email+key if both are set, else the token if set, else the
\* user-service-key.  Exactly one of error and exporter is returned.
C10_NewSelectsAuthOrFails ==
    stage # "boot" =>
        /\ stage = "fatal" <=>
              (ZonesUnset \/ AccountsMissing
                 \/ ~(EmailAuthSet \/ TokenAuthSet \/ UserServiceKeyAuthSet))
        /\ stage = "fatal" <=> err # NULL
        /\ stage = "fatal" => cm = NoExporter
        /\ stage = "fatal" =>
              err = IF ZonesUnset THEN "errNoCloudflareZones"
                    ELSE IF AccountsMissing THEN "errNoCloudflareAccounts"
                    ELSE "errNoCloudflareAuth"
        /\ stage = "serving" =>
              /\ cm.api.auth = IF EmailAuthSet THEN "email"
                               ELSE IF TokenAuthSet THEN "token"
                               ELSE "user_service_key"
              /\ cm.api.cred =
                    IF EmailAuthSet THEN <<config.cloudflareEmail, config.cloudflareKey>>
                    ELSE IF TokenAuthSet THEN <<config.cloudflareToken>>
                    ELSE <<config.cloudflareUserServiceKey>>
              /\ Len(cm.zones) >= 1
              /\ cm.includeAccess = config.cloudflareIncludeAccess

\* C10 witness: with all credentials set, New has returned an exporter
\* that authenticates by email and key
C10_Witness ==
    /\ stage = "serving"
    /\ EmailAuthSet /\ TokenAuthSet /\ UserServiceKeyAuthSet
    /\ cm.api.auth = "email"
    /\ config.cloudflareIncludeAccess = TRUE

(***************************************************************************)
(* Concurrent callers.  Goroutines each run update() once on the same      *)
(* exporter, interleaved at the accesses to cm.gauges: the lookup of       *)
(* createGaugeIfNotExists, its map write with NewGaugeVec, MustRegister,   *)
(* and the With/Set of the gauge helper.  CloudflareMetrics has no lock.   *)
(* A write to the map is in flight from the step that starts it to the     *)
(* writer's next step.  An access that meets another goroutine's write in  *)
(* flight is a data race: a racing lookup may answer either way, and the   *)
(* Go runtime may end the process ("concurrent map read and map write").   *)
(* The GaugeVec and the Prometheus registry are safe for concurrent use.   *)
(***************************************************************************)
NumGoroutines == 2

Goroutines == 1..NumGoroutines

ConcConfigs ==
    {c \in RunConfigs :
        /\ c.cloudflareZones = <<"a">> /\ c.cloudflareAccounts = <<"p">>
        /\ c.cloudflareSince = <<"2", "4", "h">>}

NoResp == [idErr |-> FALSE, fetchErr |-> FALSE, err |-> FALSE, data |-> NoData,
           tokens |-> <<>>]

ConcZoneResponses ==
    {[NoResp EXCEPT !.idErr = TRUE], [NoResp EXCEPT !.fetchErr = TRUE],
     [NoResp EXCEPT !.data = Snapshot(10, (US :> 5) @@ (DE :> 2))]}

ConcAccountResponses ==
    {[NoResp EXCEPT !.err = TRUE], [NoResp EXCEPT !.tokens = <<Token(tok1, 1600)>>]}

Idle == [pc |-> "idle", phase |-> "idle", i |-> 0, b |-> 0, ok |-> FALSE, resp |-> NoResp]

InitConc ==
    /\ config \in ConcConfigs
    /\ New(config).err = NULL
    /\ cm = New(config).cm
    /\ err = NULL
    /\ stage = "serving"
    /\ gauges = EmptyMap /\ vecs = EmptyMap /\ registry = {}
    /\ panicked = FALSE
    /\ pc = "idle" /\ idx = 0
    /\ calls = <<>>
    /\ last = NoLast
    /\ th = [t \in Goroutines |-> Idle]
    /\ writing = {} /\ raced = FALSE

\* the binding goroutine t is emitting: name, help, labels, values to set
CurTarget(t) ==
    IF th[t].phase = "accounts" THEN cm.accounts[th[t].i] ELSE cm.zones[th[t].i]

CurName(t) ==
    IF th[t].phase = "accounts" THEN AccountMetric ELSE ZoneMetric(th[t].b)

CurHelp(t) ==
    IF th[t].phase = "accounts" THEN AccountBinding.help ELSE ZoneBinding(th[t].b).help

CurLabels(t) ==
    IF th[t].phase = "accounts"
    THEN AccountKeyLabels(CurTarget(t), AccountBinding.byLabel, <<>>)
    ELSE IF ZoneBinding(th[t].b).scalar THEN ZoneLabels(CurTarget(t))
    ELSE ZoneKeyLabels(CurTarget(t), ZoneBinding(th[t].b).byLabel, <<>>)

\* another goroutine's write to cm.gauges is in flight
Racing(t) == writing \ {t} # {}

\* where goroutine t goes when the target it is at is finished
TargetDone(t) ==
    LET n == rangeNext(cm, th[t].phase, th[t].i)
    IN  IF n.pc = "idle" THEN [Idle EXCEPT !.pc = "done"]
        ELSE [Idle EXCEPT !.pc = "target", !.phase = n.pc, !.i = n.idx]

ConcFrame == UNCHANGED <<stage, config, cm, err, pc, idx, calls, last>>

\* a caller's goroutine enters update()
conc_update(t) ==
    /\ stage = "serving" /\ th[t].pc = "idle"
    /\ LET n == rangeStart(cm, "accounts")
       IN  th' = [th EXCEPT ![t] = IF n.pc = "idle" THEN [Idle EXCEPT !.pc = "done"]
                                   ELSE [Idle EXCEPT !.pc = "target", !.phase = n.pc,
                                                     !.i = n.idx]]
    /\ UNCHANGED <<gauges, vecs, registry, panicked, writing, raced>>
    /\ ConcFrame

\* updateAccount up to its gauge call: the token fetch
conc_updateAccount(t) ==
    /\ stage = "serving" /\ th[t].pc = "target" /\ th[t].phase = "accounts"
    /\ \E resp \in ConcAccountResponses :
          th' = [th EXCEPT ![t] = IF resp.err THEN TargetDone(t)
                                  ELSE [@ EXCEPT !.pc = "lookup", !.b = 1, !.resp = resp]]
    /\ UNCHANGED <<gauges, vecs, registry, panicked, writing, raced>>
    /\ ConcFrame

\* updateZone up to its first gauge call: id lookup, duration parse, fetch
conc_updateZone(t) ==
    /\ stage = "serving" /\ th[t].pc = "target" /\ th[t].phase = "zones"
    /\ \E resp \in ConcZoneResponses :
          th' = [th EXCEPT ![t] =
                    IF resp.idErr \/ DurationFails \/ resp.fetchErr THEN TargetDone(t)
                    ELSE [@ EXCEPT !.pc = "lookup", !.b = 1, !.resp = resp]]
    /\ UNCHANGED <<gauges, vecs, registry, panicked, writing, raced>>
    /\ ConcFrame

\* createGaugeIfNotExists: if _, ok := cm.gauges[name]; !ok
conc_lookup(t) ==
    /\ stage = "serving" /\ th[t].pc = "lookup"
    /\ \E ok \in IF Racing(t) THEN BOOLEAN ELSE {CurName(t) \in DOMAIN gauges} :
          th' = [th EXCEPT ![t].ok = ok, ![t].pc = IF ok THEN "set" ELSE "create"]
    /\ raced' = (raced \/ Racing(t))
    /\ UNCHANGED <<gauges, vecs, registry, panicked, writing>>
    /\ ConcFrame

\* createGaugeIfNotExists: cm.gauges[name] = prometheus.NewGaugeVec(...)
conc_create(t) ==
    /\ stage = "serving" /\ th[t].pc = "create"
    /\ LET made == NewGaugeVec(Reg(gauges, vecs, registry), CurName(t), CurHelp(t),
                               DOMAIN CurLabels(t))
       IN  /\ vecs' = (made.id :> made.vec) @@ vecs
           /\ gauges' = (CurName(t) :> made.id) @@ gauges
    /\ writing' = writing \cup {t}
    /\ raced' = (raced \/ Racing(t))
    /\ th' = [th EXCEPT ![t].pc = "register"]
    /\ UNCHANGED <<registry, panicked>>
    /\ ConcFrame

\* createGaugeIfNotExists: prometheus.MustRegister(cm.gauges[name])
conc_register(t) ==
    /\ stage = "serving" /\ th[t].pc = "register"
    /\ LET R == MustRegister(Reg(gauges, vecs, registry), gauges[CurName(t)])
       IN  /\ registry' = R.registry
           /\ panicked' = (panicked \/ R.panic)
           /\ th' = [th EXCEPT ![t] = IF R.panic THEN [Idle EXCEPT !.pc = "panicked"]
                                      ELSE [@ EXCEPT !.pc = "set"]]
    /\ writing' = writing \ {t}
    /\ raced' = (raced \/ Racing(t))
    /\ UNCHANGED <<gauges, vecs>>
    /\ ConcFrame

\* the gauge helper after createGaugeIfNotExists: cm.gauges[name].With(labels).Set(...)
\* once, or once for each key of the values map
conc_set(t) ==
    /\ stage = "serving" /\ th[t].pc = "set"
    /\ \E order \in Orders(IF th[t].phase = "accounts"
                            THEN {k.Name : k \in Range(th[t].resp.tokens)}
                            ELSE BreakdownKeys(th[t].resp.data)) :
          LET R0 == Reg(gauges, vecs, registry)
              R  == IF th[t].phase = "accounts"
                    THEN LET values == serviceTokenExpirationMap(th[t].resp.tokens)
                         IN  RangeSet(R0, CurName(t), CurLabels(t), AccountBinding.byLabel,
                                      values, KeysInOrder(values, order))
                    ELSE IF ZoneBinding(th[t].b).scalar
                    THEN WithSet(R0, CurName(t), CurLabels(t),
                                 th[t].resp.data[ZoneBinding(th[t].b).field])
                    ELSE LET values == th[t].resp.data[ZoneBinding(th[t].b).field]
                         IN  RangeSet(R0, CurName(t), CurLabels(t), ZoneBinding(th[t].b).byLabel,
                                      values, KeysInOrder(values, order))
          IN  /\ vecs' = R.vecs
              /\ panicked' = (panicked \/ R.panic)
              /\ th' = [th EXCEPT ![t] =
                          IF R.panic THEN [Idle EXCEPT !.pc = "panicked"]
                          ELSE IF th[t].phase = "zones" /\ th[t].b < NumZoneBindings
                          THEN [@ EXCEPT !.pc = "lookup", !.b = @ + 1]
                          ELSE TargetDone(t)]
    /\ raced' = (raced \/ Racing(t))
    /\ UNCHANGED <<gauges, registry, writing>>
    /\ ConcFrame

\* the Go runtime detects the racing map access and ends the process
conc_fatal(t) ==
    /\ stage = "serving"
    /\ th[t].pc \in {"lookup", "create", "register", "set"}
    /\ Racing(t)
    /\ stage' = "crashed"
    /\ raced' = TRUE
    /\ UNCHANGED <<config, cm, err, gauges, vecs, registry, panicked, pc, idx, calls,
                   last, th, writing>>

\* a scrape: the serving path gathers the registered instruments
scrape ==
    /\ stage = "serving"
    /\ last' = [NoLast EXCEPT !.op = "scrape"]
    /\ UNCHANGED <<stage, config, cm, err, gauges, vecs, registry, panicked, pc, idx,
                   calls, th, writing, raced>>

NextConc ==
    \/ \E t \in Goroutines :
          \/ conc_update(t)
          \/ conc_updateAccount(t)
          \/ conc_updateZone(t)
          \/ conc_lookup(t)
          \/ conc_create(t)
          \/ conc_register(t)
          \/ conc_set(t)
          \/ conc_fatal(t)
    \/ scrape

SpecConc == InitConc /\ [][NextConc]_vars

\* C4: registration is serialized: no metric name ever has two instruments
\* created for it (two callers that both saw it absent), no MustRegister
\* meets an instrument of the same name, and cm.gauges is never accessed
\* while another caller's write to it is in flight.
C4_RegistrationSerialized ==
    /\ \A id \in DOMAIN vecs : id[2] = 1
    /\ ~panicked
    /\ ~raced

=============================================================================
